---- MODULE Spec2Model ----
(***************************************************************************)
(* Model of the user-agent parsing engine of uap-rs (src/parser/mod.rs):   *)
(* the pattern normalizer clean_escapes, the template substitutor replace, *)
(* the construction UserAgentParser::try_from and the ordered and          *)
(* set-accelerated queries.                                                *)
(*                                                                         *)
(* A Rust &str / String is a sequence of one-character strings.            *)
(* An Option<T> is a sequence of length at most one: <<>> is None and      *)
(* <<x>> is Some(x).                                                       *)
(***************************************************************************)
EXTENDS Integers, Sequences, FiniteSets, TLC

VARIABLES
    regex_file,   \* the parsed catalog handed to try_from (RegexFile)
    parser,       \* Option<Result<UserAgentParser, Error>>: <<>> before try_from
    returned,     \* per caller: Option of the last query it issued and its result
    pattern,      \* clean_escapes: the pattern given to the normalizer
    cleaned,      \* clean_escapes: the outputs of the successive normalizations
    replacement,  \* replace: the template
    captures,     \* replace: the capture groups of one match (index 1 is group 0)
    replaced      \* replace: Option of the returned String

vars == <<regex_file, parser, returned, pattern, cleaned, replacement, captures, replaced>>

engineVars == <<regex_file, parser, returned>>
cleanVars == <<pattern, cleaned>>
replaceVars == <<replacement, captures, replaced>>

-----------------------------------------------------------------------------
(* Bounds *)

MaxPatLen == 3     \* longest pattern given to clean_escapes
MaxCleanings == 2  \* number of successive normalizations of one pattern
MaxTplLen == 3     \* longest template given to replace
MaxGroups == 10    \* largest number of capture groups of a match
MaxRules == 2      \* largest number of rule entries in a catalog file

-----------------------------------------------------------------------------
(* Strings *)

None == <<>>
Some(x) == <<x>>

RECURSIVE SeqsUpTo(_, _)
SeqsUpTo(S, n) ==
    IF n = 0 THEN {<<>>}
    ELSE LET shorter == SeqsUpTo(S, n - 1)
         IN  shorter \cup {Append(s, x) : s \in {t \in shorter : Len(t) = n - 1}, x \in S}

Drop(s, n) == SubSeq(s, n + 1, Len(s))

StartsWith(s, p) == Len(p) <= Len(s) /\ SubSeq(s, 1, Len(p)) = p

\* str::contains(char)
Contains(s, c) == \E i \in 1..Len(s) : s[i] = c

\* str::replace(from, to): every non-overlapping occurrence, left to right
RECURSIVE StrReplace(_, _, _)
StrReplace(s, from, to) ==
    IF s = <<>> THEN <<>>
    ELSE IF StartsWith(s, from) THEN to \o StrReplace(Drop(s, Len(from)), from, to)
    ELSE <<Head(s)>> \o StrReplace(Tail(s), from, to)

RECURSIVE TrimStart(_)
TrimStart(s) == IF s # <<>> /\ Head(s) = " " THEN TrimStart(Tail(s)) ELSE s

RECURSIVE TrimEnd(_)
TrimEnd(s) ==
    IF s # <<>> /\ s[Len(s)] = " " THEN TrimEnd(SubSeq(s, 1, Len(s) - 1)) ELSE s

\* str::trim
Trim(s) == TrimEnd(TrimStart(s))

DigitChars == <<"0", "1", "2", "3", "4", "5", "6", "7", "8", "9">>

\* format!("{}", i) for a usize
RECURSIVE Decimal(_)
Decimal(i) ==
    IF i < 10 THEN <<DigitChars[i + 1]>>
    ELSE Decimal(i \div 10) \o <<DigitChars[(i % 10) + 1]>>

-----------------------------------------------------------------------------
(* none_if_empty, replace, clean_escapes *)

none_if_empty(s) == IF s # <<>> THEN Some(s) ELSE None

\* regex::Captures::len: the number of groups, group 0 (the whole match) included
CapturesLen(caps) == Len(caps)

\* regex::Captures::get(i).map(|x| x.as_str()).unwrap_or("")
GroupOrEmpty(caps, i) ==
    IF i + 1 <= Len(caps) /\ caps[i + 1] # None THEN caps[i + 1][1] ELSE <<>>

RECURSIVE ReplaceFold(_, _, _, _)
ReplaceFold(state, caps, i, last) ==
    IF i > last THEN state
    ELSE ReplaceFold(StrReplace(state, <<"$">> \o Decimal(i), GroupOrEmpty(caps, i)),
                     caps, i + 1, last)

\* replace, trimming in both branches
replace_trimming(tpl, caps) ==
    IF Contains(tpl, "$") /\ CapturesLen(caps) > 0
    THEN Trim(ReplaceFold(tpl, caps, 1, CapturesLen(caps)))
    ELSE Trim(tpl)

replace(tpl, caps) ==
    IF Contains(tpl, "$") /\ CapturesLen(caps) > 0
    THEN Trim(ReplaceFold(tpl, caps, 1, CapturesLen(caps)))
    ELSE tpl

\* INVALID_ESCAPES: "\\\\([! /])"
InvalidEscaped == {"!", " ", "/"}

\* INVALID_ESCAPES.replace_all(pattern, "$1")
RECURSIVE clean_escapes(_)
clean_escapes(p) ==
    IF Len(p) < 2 THEN p
    ELSE IF p[1] = "\\" /\ p[2] \in InvalidEscaped
         THEN <<p[2]>> \o clean_escapes(Drop(p, 2))
    ELSE <<p[1]>> \o clean_escapes(Tail(p))

-----------------------------------------------------------------------------
(* The regex engine (crate regex), restricted to the dialect the catalogs  *)
(* of the model use: literal characters, capture groups "(" ... ")" and    *)
(* backslash escapes.  An escape of a metacharacter is a literal; any      *)
(* other escape (such as "\/") is not recognised and fails to compile.     *)

EscapableMeta == {"\\", "(", ")"}

RECURSIVE ParseRegex(_, _, _, _)
ParseRegex(p, lits, groups, open) ==
    IF p = <<>>
    THEN [ok |-> open = <<>>, lits |-> lits, groups |-> groups]
    ELSE IF Head(p) = "("
    THEN ParseRegex(Tail(p), lits,
                    Append(groups, [from |-> Len(lits) + 1, to |-> Len(lits)]),
                    <<Len(groups) + 1>> \o open)
    ELSE IF Head(p) = ")"
    THEN IF open = <<>>
         THEN [ok |-> FALSE, lits |-> lits, groups |-> groups]
         ELSE ParseRegex(Tail(p), lits,
                         [groups EXCEPT ![Head(open)].to = Len(lits)],
                         Tail(open))
    ELSE IF Head(p) = "\\"
    THEN IF Len(p) >= 2 /\ p[2] \in EscapableMeta
         THEN ParseRegex(Drop(p, 2), Append(lits, p[2]), groups, open)
         ELSE [ok |-> FALSE, lits |-> lits, groups |-> groups]
    ELSE ParseRegex(Tail(p), Append(lits, Head(p)), groups, open)

\* Regex::new / RegexBuilder: ok is FALSE when the pattern does not compile
RegexNew(p, case_insensitive) ==
    LET parsed == ParseRegex(p, <<>>, <<>>, <<>>)
    IN  [ok |-> parsed.ok, pattern |-> p, lits |-> parsed.lits,
         groups |-> parsed.groups, ci |-> case_insensitive]

LowerChar(c) == IF c = "A" THEN "a" ELSE c

CharEq(case_insensitive, x, y) ==
    IF case_insensitive THEN LowerChar(x) = LowerChar(y) ELSE x = y

\* the regex matches the text at position i
MatchAt(re, s, i) ==
    \A j \in 1..Len(re.lits) : CharEq(re.ci, s[i + j - 1], re.lits[j])

\* the start of the leftmost match at or after position i (unanchored
\* search), 0 when there is none
RECURSIVE FindFrom(_, _, _)
FindFrom(re, s, i) ==
    IF i > Len(s) - Len(re.lits) + 1 THEN 0
    ELSE IF MatchAt(re, s, i) THEN i
    ELSE FindFrom(re, s, i + 1)

\* Regex::is_match
is_match(re, s) == FindFrom(re, s, 1) # 0

\* Regex::captures: Option of the groups of the leftmost match, group 0 first
regex_captures(re, s) ==
    LET i == FindFrom(re, s, 1)
    IN  IF i = 0 THEN None
        ELSE Some(<<Some(SubSeq(s, i, i + Len(re.lits) - 1))>> \o
                  [k \in 1..Len(re.groups) |->
                      Some(SubSeq(s, i + re.groups[k].from - 1, i + re.groups[k].to - 1))])

\* size of the compiled program of one pattern, in abstract units
ProgramSize(re) == Len(re.lits) + Len(re.groups) + 1

RECURSIVE SumSizes(_)
SumSizes(progs) == IF progs = <<>> THEN 0 ELSE ProgramSize(Head(progs)) + SumSizes(Tail(progs))

\* .size_limit(20 * (1 << 23))
SizeLimit == 20 * (2 ^ 23)

\* RegexSetBuilder::new(patterns).size_limit(..).build()
RegexSetBuild(patterns) ==
    LET progs == [k \in 1..Len(patterns) |-> RegexNew(patterns[k], FALSE)]
    IN  [ok |-> (\A k \in 1..Len(progs) : progs[k].ok) /\ SumSizes(progs) <= SizeLimit,
         patterns |-> patterns, progs |-> progs]

\* RegexSet::matches(s).iter(): the indices (0-based) of the patterns that match
SetMatches(set, s) == {k - 1 : k \in {j \in 1..Len(set.progs) : is_match(set.progs[j], s)}}

\* .iter().next(): Option of the smallest matching index
RECURSIVE FirstSetMatchFrom(_, _, _)
FirstSetMatchFrom(set, s, k) ==
    IF k > Len(set.progs) THEN None
    ELSE IF is_match(set.progs[k], s) THEN Some(k - 1)
    ELSE FirstSetMatchFrom(set, s, k + 1)

FirstSetMatch(set, s) == FirstSetMatchFrom(set, s, 1)

\* Vec::get(index)
VecGet(v, index) == IF index + 1 \in 1..Len(v) THEN Some(v[index + 1]) ELSE None

-----------------------------------------------------------------------------
(* Rule entries, sub-parsers (device::Matcher, os::Matcher,                *)
(* user_agent::Matcher) and result records                                 *)

\* the family of a default record
Sentinel == <<"O", "t", "h", "e", "r">>

DefaultDevice == [family |-> Sentinel, brand |-> None, model |-> None]
DefaultOS == [family |-> Sentinel, major |-> None, minor |-> None, patch |-> None,
              patch_minor |-> None]
DefaultUserAgent == [family |-> Sentinel, major |-> None, minor |-> None, patch |-> None]

\* a per-rule flag "i" compiles the individual matcher case-insensitively
FlagCaseInsensitive(regex_flag) == regex_flag # None /\ Contains(regex_flag[1], "i")

\* device::Matcher::try_from(entry)
DeviceMatcherTryFrom(entry) ==
    [regex |-> RegexNew(clean_escapes(entry.regex), FlagCaseInsensitive(entry.regex_flag)),
     device_replacement |-> entry.device_replacement]

\* os::Matcher::try_from(entry)
OSMatcherTryFrom(entry) ==
    [regex |-> RegexNew(clean_escapes(entry.regex), FALSE),
     os_replacement |-> entry.os_replacement]

\* user_agent::Matcher::try_from(entry)
UserAgentMatcherTryFrom(entry) ==
    [regex |-> RegexNew(clean_escapes(entry.regex), FALSE),
     family_replacement |-> entry.family_replacement]

\* a field with a template is the substituted template, a field without
\* one is the capture group at the field's position
Field(template, caps, position) ==
    IF template # None THEN replace(template[1], caps) ELSE GroupOrEmpty(caps, position)

\* the family falls back to the sentinel when its computed value is empty
Family(template, caps) ==
    LET family == none_if_empty(Field(template, caps, 1))
    IN  IF family = None THEN Sentinel ELSE family[1]

\* device::Matcher::try_parse
DeviceTryParse(matcher, text) ==
    LET found == regex_captures(matcher.regex, text)
    IN  IF found = None THEN None
        ELSE Some([family |-> Family(matcher.device_replacement, found[1]),
                   brand |-> none_if_empty(GroupOrEmpty(found[1], 2)),
                   model |-> none_if_empty(GroupOrEmpty(found[1], 3))])

\* os::Matcher::try_parse
OSTryParse(matcher, text) ==
    LET found == regex_captures(matcher.regex, text)
    IN  IF found = None THEN None
        ELSE Some([family |-> Family(matcher.os_replacement, found[1]),
                   major |-> none_if_empty(GroupOrEmpty(found[1], 2)),
                   minor |-> none_if_empty(GroupOrEmpty(found[1], 3)),
                   patch |-> none_if_empty(GroupOrEmpty(found[1], 4)),
                   patch_minor |-> none_if_empty(GroupOrEmpty(found[1], 5))])

\* user_agent::Matcher::try_parse
UserAgentTryParse(matcher, text) ==
    LET found == regex_captures(matcher.regex, text)
    IN  IF found = None THEN None
        ELSE Some([family |-> Family(matcher.family_replacement, found[1]),
                   major |-> none_if_empty(GroupOrEmpty(found[1], 2)),
                   minor |-> none_if_empty(GroupOrEmpty(found[1], 3)),
                   patch |-> none_if_empty(GroupOrEmpty(found[1], 4))])

-----------------------------------------------------------------------------
(* UserAgentParser::try_from *)

Ok(v) == [ok |-> TRUE, val |-> v]
Err(e) == [ok |-> FALSE, val |-> e]

\* the cleaned patterns, collected in reverse catalog order
CleanedPatternsReversed(entries) ==
    [k \in 1..Len(entries) |-> clean_escapes(entries[Len(entries) + 1 - k].regex)]

\* regex_file.<facet>_parsers.iter().map(|e| clean_escapes(&e.regex))
CleanedPatterns(entries) == [k \in 1..Len(entries) |-> clean_escapes(entries[k].regex)]

DeviceMatchers(entries) == [k \in 1..Len(entries) |-> DeviceMatcherTryFrom(entries[k])]
OSMatchers(entries) == [k \in 1..Len(entries) |-> OSMatcherTryFrom(entries[k])]
UserAgentMatchers(entries) == [k \in 1..Len(entries) |-> UserAgentMatcherTryFrom(entries[k])]

\* every push(Matcher::try_from(parser)?) of one loop succeeded
AllCompiled(matchers) == \A k \in 1..Len(matchers) : matchers[k].regex.ok

DeviceCompiles(entry) == DeviceMatcherTryFrom(entry).regex.ok
OSCompiles(entry) == OSMatcherTryFrom(entry).regex.ok
UserAgentCompiles(entry) == UserAgentMatcherTryFrom(entry).regex.ok

\* try_from, skipping the rules that do not compile instead of failing
try_from_skipping(file) ==
    LET device_parsers == SelectSeq(file.device_parsers, DeviceCompiles)
        os_parsers == SelectSeq(file.os_parsers, OSCompiles)
        user_agent_parsers == SelectSeq(file.user_agent_parsers, UserAgentCompiles)
    IN  Ok([device_matcher |-> RegexSetBuild(CleanedPatterns(device_parsers)),
            device_matchers |-> DeviceMatchers(device_parsers),
            os_matcher |-> RegexSetBuild(CleanedPatterns(os_parsers)),
            os_matchers |-> OSMatchers(os_parsers),
            user_agent_matcher |-> RegexSetBuild(CleanedPatterns(user_agent_parsers)),
            user_agent_matchers |-> UserAgentMatchers(user_agent_parsers)])

try_from(file) ==
    LET device_matcher == RegexSetBuild(CleanedPatterns(file.device_parsers))
        os_matcher == RegexSetBuild(CleanedPatterns(file.os_parsers))
        user_agent_matcher == RegexSetBuild(CleanedPatterns(file.user_agent_parsers))
        device_matchers == DeviceMatchers(file.device_parsers)
        os_matchers == OSMatchers(file.os_parsers)
        user_agent_matchers == UserAgentMatchers(file.user_agent_parsers)
    IN  IF ~device_matcher.ok THEN Err("Device")
        ELSE IF ~os_matcher.ok THEN Err("OS")
        ELSE IF ~user_agent_matcher.ok THEN Err("UserAgent")
        ELSE IF ~AllCompiled(device_matchers) THEN Err("Device")
        ELSE IF ~AllCompiled(os_matchers) THEN Err("OS")
        ELSE IF ~AllCompiled(user_agent_matchers) THEN Err("UserAgent")
        ELSE Ok([device_matcher |-> device_matcher,
                 device_matchers |-> device_matchers,
                 os_matcher |-> os_matcher,
                 os_matchers |-> os_matchers,
                 user_agent_matcher |-> user_agent_matcher,
                 user_agent_matchers |-> user_agent_matchers])

-----------------------------------------------------------------------------
(* Queries *)

\* .iter().find_map(|matcher| matcher.try_parse(user_agent))
RECURSIVE DeviceFindMap(_, _, _)
DeviceFindMap(matchers, user_agent, k) ==
    IF k > Len(matchers) THEN None
    ELSE LET device == DeviceTryParse(matchers[k], user_agent)
         IN  IF device # None THEN device ELSE DeviceFindMap(matchers, user_agent, k + 1)

RECURSIVE OSFindMap(_, _, _)
OSFindMap(matchers, user_agent, k) ==
    IF k > Len(matchers) THEN None
    ELSE LET os == OSTryParse(matchers[k], user_agent)
         IN  IF os # None THEN os ELSE OSFindMap(matchers, user_agent, k + 1)

RECURSIVE UserAgentFindMap(_, _, _)
UserAgentFindMap(matchers, user_agent, k) ==
    IF k > Len(matchers) THEN None
    ELSE LET ua == UserAgentTryParse(matchers[k], user_agent)
         IN  IF ua # None THEN ua ELSE UserAgentFindMap(matchers, user_agent, k + 1)

\* unwrap_or_default with a derived default: the family is the empty string
UnwrapOrEmptyFamily(opt, default) ==
    IF opt = None THEN [default EXCEPT !.family = <<>>] ELSE opt[1]

\* Option::unwrap_or_default
UnwrapOr(opt, default) == IF opt = None THEN default ELSE opt[1]

parse_device(self, user_agent) ==
    UnwrapOr(DeviceFindMap(self.device_matchers, user_agent, 1), DefaultDevice)

parse_os(self, user_agent) ==
    UnwrapOr(OSFindMap(self.os_matchers, user_agent, 1), DefaultOS)

parse_user_agent(self, user_agent) ==
    UnwrapOr(UserAgentFindMap(self.user_agent_matchers, user_agent, 1), DefaultUserAgent)

parse(self, user_agent) ==
    [device |-> parse_device(self, user_agent),
     os |-> parse_os(self, user_agent),
     user_agent |-> parse_user_agent(self, user_agent)]

parse_device_set(self, user_agent) ==
    LET mat == FirstSetMatch(self.device_matcher, user_agent)
        matcher == IF mat = None THEN None ELSE VecGet(self.device_matchers, mat[1])
        device == IF matcher = None THEN None ELSE DeviceTryParse(matcher[1], user_agent)
    IN  UnwrapOr(device, DefaultDevice)

parse_os_set(self, user_agent) ==
    LET mat == FirstSetMatch(self.os_matcher, user_agent)
        matcher == IF mat = None THEN None ELSE VecGet(self.os_matchers, mat[1])
        os == IF matcher = None THEN None ELSE OSTryParse(matcher[1], user_agent)
    IN  UnwrapOr(os, DefaultOS)

parse_user_agent_set(self, user_agent) ==
    LET mat == FirstSetMatch(self.user_agent_matcher, user_agent)
        matcher == IF mat = None THEN None ELSE VecGet(self.user_agent_matchers, mat[1])
        ua == IF matcher = None THEN None ELSE UserAgentTryParse(matcher[1], user_agent)
    IN  UnwrapOr(ua, DefaultUserAgent)

-----------------------------------------------------------------------------
(* Inputs *)

Callers == {"c1", "c2"}

\* the user-agent strings given to the queries
UserAgents == {<<"a", "/">>, <<"A", "/">>}

\* rule patterns: "(a)", "(\/)" and the malformed "("
DeviceRegexes == {<<"(", "a", ")">>, <<"(", "\\", "/", ")">>, <<"(">>}
OSRegexes == {<<"(", "a", ")">>, <<"(">>}
UserAgentRegexes == {<<"(", "\\", "/", ")">>, <<"(">>}

DeviceEntries ==
    [regex : DeviceRegexes, regex_flag : {None, Some(<<"i">>)}, device_replacement : {None}]

OSEntries ==
    [regex : OSRegexes, os_replacement : {None, Some(<<"X", "$", "1">>)}]

UserAgentEntries ==
    [regex : UserAgentRegexes, family_replacement : {None, Some(<<"$", "1", " ">>)}]

\* the catalogs: at most MaxRules rule entries in all
RegexFiles ==
    {f \in [device_parsers : SeqsUpTo(DeviceEntries, MaxRules),
            os_parsers : SeqsUpTo(OSEntries, MaxRules),
            user_agent_parsers : SeqsUpTo(UserAgentEntries, MaxRules)] :
        Len(f.device_parsers) + Len(f.os_parsers) + Len(f.user_agent_parsers) <= MaxRules}

EmptyFile == [device_parsers |-> <<>>, os_parsers |-> <<>>, user_agent_parsers |-> <<>>]

PatternChars == {"\\", "!", "/", " ", "a"}
Patterns == SeqsUpTo(PatternChars, MaxPatLen)

TemplateChars == {"$", "0", "1", "2", " ", "x"}
Templates == SeqsUpTo(TemplateChars, MaxTplLen)

GroupLetters == <<"a", "b", "c", "d", "e", "f", "g", "h", "i", "j", "k", "l">>

WholeMatch == Some(<<"w">>)

\* a match of a pattern with n groups, all of which participate
AllGroups(n) ==
    <<WholeMatch>> \o [i \in 1..n |-> Some(<<GroupLetters[((i - 1) % Len(GroupLetters)) + 1]>>)]

CapturesPool ==
    {AllGroups(n) : n \in 0..MaxGroups}
    \cup {<<WholeMatch, None>>,
          <<WholeMatch, None, Some(<<"b">>)>>,
          <<WholeMatch, Some(<<"$", "2">>), Some(<<"b">>)>>}

-----------------------------------------------------------------------------
(* Engine: construction and queries *)

Built == parser # None /\ parser[1].ok

Init ==
    /\ regex_file \in RegexFiles
    /\ parser = None
    /\ returned = [c \in Callers |-> None]
    /\ pattern = <<>>
    /\ cleaned = <<>>
    /\ replacement = <<>>
    /\ captures = <<WholeMatch>>
    /\ replaced = None

TryFrom ==
    /\ parser = None
    /\ parser' = Some(try_from(regex_file))
    /\ UNCHANGED <<regex_file, returned, cleanVars, replaceVars>>

Return(c, op, user_agent, val) ==
    /\ returned' = [returned EXCEPT ![c] = Some([op |-> op, user_agent |-> user_agent, val |-> val])]
    /\ UNCHANGED <<regex_file, parser, cleanVars, replaceVars>>

Parse(c, user_agent) ==
    /\ Built
    /\ Return(c, "parse", user_agent, parse(parser[1].val, user_agent))

ParseDevice(c, user_agent) ==
    /\ Built
    /\ Return(c, "parse_device", user_agent, parse_device(parser[1].val, user_agent))

ParseOS(c, user_agent) ==
    /\ Built
    /\ Return(c, "parse_os", user_agent, parse_os(parser[1].val, user_agent))

ParseUserAgent(c, user_agent) ==
    /\ Built
    /\ Return(c, "parse_user_agent", user_agent, parse_user_agent(parser[1].val, user_agent))

\* parse_device_set, moving the matcher it used to the front of the list
ParseDeviceSetPromoting(c, user_agent) ==
    /\ Built
    /\ LET self == parser[1].val
           mat == FirstSetMatch(self.device_matcher, user_agent)
           promoted == IF mat = None THEN self.device_matchers
                       ELSE <<self.device_matchers[mat[1] + 1]>> \o
                            SubSeq(self.device_matchers, 1, mat[1]) \o
                            SubSeq(self.device_matchers, mat[1] + 2, Len(self.device_matchers))
       IN  /\ returned' = [returned EXCEPT ![c] =
                              Some([op |-> "parse_device_set", user_agent |-> user_agent,
                                    val |-> parse_device_set(self, user_agent)])]
           /\ parser' = Some(Ok([self EXCEPT !.device_matchers = promoted]))
    /\ UNCHANGED <<regex_file, cleanVars, replaceVars>>

ParseDeviceSet(c, user_agent) ==
    /\ Built
    /\ Return(c, "parse_device_set", user_agent, parse_device_set(parser[1].val, user_agent))

ParseOSSet(c, user_agent) ==
    /\ Built
    /\ Return(c, "parse_os_set", user_agent, parse_os_set(parser[1].val, user_agent))

ParseUserAgentSet(c, user_agent) ==
    /\ Built
    /\ Return(c, "parse_user_agent_set", user_agent,
              parse_user_agent_set(parser[1].val, user_agent))

Next ==
    \/ TryFrom
    \/ \E c \in Callers, user_agent \in UserAgents : Parse(c, user_agent)
    \/ \E c \in Callers, user_agent \in UserAgents : ParseDevice(c, user_agent)
    \/ \E c \in Callers, user_agent \in UserAgents : ParseOS(c, user_agent)
    \/ \E c \in Callers, user_agent \in UserAgents : ParseUserAgent(c, user_agent)
    \/ \E c \in Callers, user_agent \in UserAgents : ParseDeviceSet(c, user_agent)
    \/ \E c \in Callers, user_agent \in UserAgents : ParseOSSet(c, user_agent)
    \/ \E c \in Callers, user_agent \in UserAgents : ParseUserAgentSet(c, user_agent)

Spec == Init /\ [][Next]_vars

-----------------------------------------------------------------------------
(* clean_escapes applied repeatedly to one pattern *)

InitClean ==
    /\ regex_file = EmptyFile
    /\ parser = None
    /\ returned = [c \in Callers |-> None]
    /\ pattern \in Patterns
    /\ cleaned = <<>>
    /\ replacement = <<>>
    /\ captures = <<WholeMatch>>
    /\ replaced = None

CleanEscapes ==
    /\ Len(cleaned) < MaxCleanings
    /\ cleaned' = Append(cleaned,
                         clean_escapes(IF cleaned = <<>> THEN pattern ELSE cleaned[Len(cleaned)]))
    /\ UNCHANGED <<pattern, engineVars, replaceVars>>

NextClean == CleanEscapes

SpecClean == InitClean /\ [][NextClean]_vars

-----------------------------------------------------------------------------
(* replace applied to one template and the captures of one match *)

InitReplace ==
    /\ regex_file = EmptyFile
    /\ parser = None
    /\ returned = [c \in Callers |-> None]
    /\ pattern = <<>>
    /\ cleaned = <<>>
    /\ replacement \in Templates
    /\ captures \in CapturesPool
    /\ replaced = None

Replace ==
    /\ replaced = None
    /\ replaced' = Some(replace(replacement, captures))
    /\ UNCHANGED <<replacement, captures, engineVars, cleanVars>>

NextReplace == Replace

SpecReplace == InitReplace /\ [][NextReplace]_vars

-----------------------------------------------------------------------------
(* Properties of the queries *)

Facets == {"device", "os", "user_agent"}

OrderedOp(facet) ==
    CASE facet = "device" -> "parse_device"
      [] facet = "os" -> "parse_os"
      [] facet = "user_agent" -> "parse_user_agent"

SetOp(facet) ==
    CASE facet = "device" -> "parse_device_set"
      [] facet = "os" -> "parse_os_set"
      [] facet = "user_agent" -> "parse_user_agent_set"

MatchersOf(self, facet) ==
    CASE facet = "device" -> self.device_matchers
      [] facet = "os" -> self.os_matchers
      [] facet = "user_agent" -> self.user_agent_matchers

AggregateOf(self, facet) ==
    CASE facet = "device" -> self.device_matcher
      [] facet = "os" -> self.os_matcher
      [] facet = "user_agent" -> self.user_agent_matcher

EntriesOf(file, facet) ==
    CASE facet = "device" -> file.device_parsers
      [] facet = "os" -> file.os_parsers
      [] facet = "user_agent" -> file.user_agent_parsers

TryParseOf(facet, matcher, text) ==
    CASE facet = "device" -> DeviceTryParse(matcher, text)
      [] facet = "os" -> OSTryParse(matcher, text)
      [] facet = "user_agent" -> UserAgentTryParse(matcher, text)

DefaultOf(facet) ==
    CASE facet = "device" -> DefaultDevice
      [] facet = "os" -> DefaultOS
      [] facet = "user_agent" -> DefaultUserAgent

\* the (1-based) positions of the rules of a facet that match the text
MatchingRules(self, facet, text) ==
    {k \in 1..Len(MatchersOf(self, facet)) : is_match(MatchersOf(self, facet)[k].regex, text)}

Least(S) == CHOOSE x \in S : \A y \in S : x <= y

\* caller c has a result of the operation op
Has(c, op) == returned[c] # None /\ returned[c][1].op = op

\* C1: for every facet and input, the set-accelerated query returns the same
\* record as the ordered query.
SetAgreesWithOrdered ==
    \A c, d \in Callers, facet \in Facets :
        (/\ Has(c, OrderedOp(facet))
         /\ Has(d, SetOp(facet))
         /\ returned[c][1].user_agent = returned[d][1].user_agent)
        => returned[c][1].val = returned[d][1].val

\* C2: when two rules at positions i < j both match the input, the record
\* returned by the ordered query and by the set-accelerated query is the
\* extraction of the first matching rule.
FirstMatchWins ==
    \A c \in Callers, facet \in Facets :
        (Has(c, OrderedOp(facet)) \/ Has(c, SetOp(facet))) =>
            LET hits == MatchingRules(parser[1].val, facet, returned[c][1].user_agent)
            IN  (\E i, j \in hits : i < j) =>
                    returned[c][1].val =
                        TryParseOf(facet, MatchersOf(parser[1].val, facet)[Least(hits)],
                                   returned[c][1].user_agent)[1]

\* C3: when no rule of a facet matches the input (the empty catalog
\* included), the ordered and the set-accelerated query return the facet's
\* default record; every query returns a record with a family.
DefaultOnNoMatch ==
    \A c \in Callers, facet \in Facets :
        returned[c] # None =>
            LET call == returned[c][1]
                nohit == MatchingRules(parser[1].val, facet, call.user_agent) = {}
            IN  /\ call.op \in {OrderedOp(facet), SetOp(facet)} =>
                    /\ DOMAIN call.val = DOMAIN DefaultOf(facet)
                    /\ call.val.family # <<>>
                    /\ nohit => call.val = DefaultOf(facet)
                /\ (call.op = "parse" /\ nohit) => call.val[facet] = DefaultOf(facet)

\* C3: one caller got the default record from an ordered query and another
\* from a set-accelerated query, on a catalog with rules none of which matches.
DefaultOnNoMatchWitness ==
    \E c, d \in Callers, facet \in Facets :
        /\ Has(c, OrderedOp(facet))
        /\ Has(d, SetOp(facet))
        /\ Len(MatchersOf(parser[1].val, facet)) > 0
        /\ MatchingRules(parser[1].val, facet, returned[c][1].user_agent) = {}
        /\ MatchingRules(parser[1].val, facet, returned[d][1].user_agent) = {}
        /\ returned[c][1].val = DefaultOf(facet)
        /\ returned[d][1].val = DefaultOf(facet)

\* every pattern of the catalog compiles, individually and in its aggregate
CatalogCompiles(file) ==
    /\ \A k \in 1..Len(file.device_parsers) : DeviceMatcherTryFrom(file.device_parsers[k]).regex.ok
    /\ \A k \in 1..Len(file.os_parsers) : OSMatcherTryFrom(file.os_parsers[k]).regex.ok
    /\ \A k \in 1..Len(file.user_agent_parsers) :
           UserAgentMatcherTryFrom(file.user_agent_parsers[k]).regex.ok
    /\ \A facet \in Facets : RegexSetBuild(CleanedPatterns(EntriesOf(file, facet))).ok

\* C6: construction returns an engine only if every aggregate and every
\* individual matcher compiles; otherwise it returns an error and no engine.
\* A returned engine holds a compiled matcher for every rule of every facet.
AllOrNothing ==
    parser # None =>
        /\ parser[1].ok <=> CatalogCompiles(regex_file)
        /\ ~parser[1].ok => parser[1].val \in {"Device", "OS", "UserAgent"}
        /\ parser[1].ok =>
              \A facet \in Facets :
                  /\ AggregateOf(parser[1].val, facet).ok
                  /\ Len(MatchersOf(parser[1].val, facet)) = Len(EntriesOf(regex_file, facet))
                  /\ \A k \in 1..Len(MatchersOf(parser[1].val, facet)) :
                         MatchersOf(parser[1].val, facet)[k].regex.ok

\* C6: construction failed on a catalog in which a rule that compiles
\* precedes one that does not.
AllOrNothingWitness ==
    /\ parser # None
    /\ ~parser[1].ok
    /\ \E facet \in Facets :
          /\ Len(EntriesOf(regex_file, facet)) = 2
          /\ RegexNew(clean_escapes(EntriesOf(regex_file, facet)[1].regex), FALSE).ok
          /\ ~RegexNew(clean_escapes(EntriesOf(regex_file, facet)[2].regex), FALSE).ok

\* two results of the same operation on the same input are the same record
Deterministic ==
    \A c, d \in Callers :
        (/\ returned[c] # None
         /\ returned[d] # None
         /\ returned[c][1].op = returned[d][1].op
         /\ returned[c][1].user_agent = returned[d][1].user_agent)
        => returned[c][1].val = returned[d][1].val

\* C7: no query changes the engine, and whatever the interleaving of the
\* callers' queries, a query returns the same record for the same input.
QueriesPure == [][Built => (parser' = parser /\ Deterministic')]_vars

\* C7: both callers ran the same query on the same input, which a rule matched.
QueriesPureWitness ==
    /\ Has("c1", "parse_device_set")
    /\ Has("c2", "parse_device_set")
    /\ returned["c1"][1].user_agent = returned["c2"][1].user_agent
    /\ returned["c1"][1].val # DefaultDevice
    /\ Len(parser[1].val.device_matchers) = 2

\* C10: in a built engine the aggregate matcher and the individual matchers
\* of a facet have the length and order of the catalog: pattern k of the
\* aggregate is the normalized pattern of entry k, matcher k is compiled from
\* entry k, and every index the aggregate reports is an index of the list.
AggregateAligned ==
    Built =>
        \A facet \in Facets :
            LET entries == EntriesOf(regex_file, facet)
                set == AggregateOf(parser[1].val, facet)
                matchers == MatchersOf(parser[1].val, facet)
            IN  /\ Len(set.patterns) = Len(entries)
                /\ Len(matchers) = Len(entries)
                /\ \A k \in 1..Len(entries) :
                       /\ set.patterns[k] = clean_escapes(entries[k].regex)
                       /\ matchers[k].regex.pattern = clean_escapes(entries[k].regex)
                /\ \A text \in UserAgents : \A index \in SetMatches(set, text) :
                       VecGet(matchers, index) # None

\* C10: an engine built from a device catalog of two rules with different
\* patterns, one of which the normalizer rewrites.
AggregateAlignedWitness ==
    /\ Built
    /\ Len(regex_file.device_parsers) = 2
    /\ regex_file.device_parsers[1].regex # regex_file.device_parsers[2].regex
    /\ clean_escapes(regex_file.device_parsers[1].regex) # regex_file.device_parsers[1].regex

-----------------------------------------------------------------------------
(* Properties of clean_escapes *)

\* C4: clean_escapes is idempotent: normalizing a normalized pattern returns
\* it unchanged.
CleanIdempotent == Len(cleaned) >= 2 => cleaned[2] = cleaned[1]

-----------------------------------------------------------------------------
(* Properties of replace *)

\* the groups of a match, group 0 excluded
NumGroups(caps) == Len(caps) - 1

\* the placeholder at the head of a template: the longest "$N" with N the
\* number of a group of the match; 0 when there is none
RECURSIVE LongestPlaceholder(_, _)
LongestPlaceholder(tpl, n) ==
    IF n = 0 THEN 0
    ELSE IF StartsWith(tpl, <<"$">> \o Decimal(n)) THEN n
    ELSE LongestPlaceholder(tpl, n - 1)

\* the template with every placeholder replaced, in one pass, by the text of
\* its group; other text and inserted text are left as they are
RECURSIVE Substitute(_, _)
Substitute(tpl, caps) ==
    IF tpl = <<>> THEN <<>>
    ELSE LET n == LongestPlaceholder(tpl, NumGroups(caps))
         IN  IF n = 0 THEN <<Head(tpl)>> \o Substitute(Tail(tpl), caps)
             ELSE GroupOrEmpty(caps, n) \o Substitute(Drop(tpl, 1 + Len(Decimal(n))), caps)

PlaceholdersSubstituted ==
    (replaced # None /\ Contains(replacement, "$")) =>
        replaced[1] = Trim(Substitute(replacement, captures))

\* C9: when the pattern has no capture group, a template with placeholder
\* markers is returned unchanged apart from trimming.
ZeroGroupsUnchanged ==
    (replaced # None /\ NumGroups(captures) = 0 /\ Contains(replacement, "$")) =>
        replaced[1] = Trim(replacement)

====
